---- MODULE Spec2Model ----
(***************************************************************************)
(* pngme: the PNG chunk container.  A byte buffer is parsed into a Png     *)
(* (an 8-byte header and an ordered list of chunks), chunks are inserted,  *)
(* looked up and removed, and the Png is written back as bytes.            *)
(*                                                                         *)
(* Bytes are naturals 0..255.  A u32 is the pair <<hi, lo>> of its two     *)
(* 16-bit halves (value hi * 65536 + lo), so that every value of the type  *)
(* is representable and the wrap of u32 arithmetic is explicit.            *)
(***************************************************************************)
EXTENDS Integers, Sequences, FiniteSets, TLC

VARIABLES
    bytes,           \* the byte buffer handed to the parser
    edits,           \* corruptions applied to a stand-alone chunk's bytes
    stage,           \* "input" | "parsed" | "aborted" (the process panicked)
    header,          \* Png.header
    chunks,          \* Png.chunks
    chunk,           \* a stand-alone Chunk or ChunkType value, or NoChunk
    result,          \* what the last operation returned
    op,              \* the last operation and its arguments
    pre              \* Png.chunks before the last operation

vars == <<bytes, edits, stage, header, chunks, chunk, result, op, pre>>

---------------------------------------------------------------------------
(* Bounds of the model *)

MaxChunks == 2      \* wire pieces (chunk records, stray runs) of an input buffer
MaxEdits == 1       \* corruptions of a stand-alone chunk's wire bytes
MaxInserts == 2     \* insert_chunk calls per Png
MaxDataLen == 2     \* data bytes of a chunk built stand-alone (chunk.rs)

---------------------------------------------------------------------------
(* u32 and byte helpers *)

Half == 2 ^ 16

U32(n) == <<(n \div Half) % Half, n % Half>>

\* u32::from_be_bytes
from_be_bytes(b) == <<b[1] * 256 + b[2], b[3] * 256 + b[4]>>

\* u32::to_be_bytes
to_be_bytes(u) == <<u[1] \div 256, u[1] % 256, u[2] \div 256, u[2] % 256>>

\* u32 + n (n small): the wrapped sum and whether it overflowed
U32Add(u, n) ==
    LET lo == u[2] + n
        hi == u[1] + (lo \div Half)
    IN  [value |-> <<hi % Half, lo % Half>>, overflow |-> hi >= Half]

\* a u32 used as a usize count is no more than n (n < 65536)
AtMost(u, n) == u[1] = 0 /\ u[2] <= n

\* the usize value of a u32 known to be small
AsUsize(u) == u[2]

RECURSIVE Xor(_, _)
Xor(a, b) ==
    IF a = 0 THEN b
    ELSE IF b = 0 THEN a
    ELSE ((a + b) % 2) + 2 * Xor(a \div 2, b \div 2)

U32Xor(u, v) == <<Xor(u[1], v[1]), Xor(u[2], v[2])>>

\* u >> k, 0 < k < 16
U32Shr(u, k) ==
    <<u[1] \div (2 ^ k), (u[1] % (2 ^ k)) * (2 ^ (16 - k)) + (u[2] \div (2 ^ k))>>

---------------------------------------------------------------------------
(* crc::crc32::checksum_ieee: CRC-32, reflected polynomial 0xEDB88320,     *)
(* initial value and final xor 0xFFFFFFFF, table driven.                   *)

IEEE_POLY == <<60856, 33568>>

AllOnes == <<65535, 65535>>

RECURSIVE TableEntry(_, _)
TableEntry(c, k) ==
    IF k = 0 THEN c
    ELSE TableEntry(IF c[2] % 2 = 1 THEN U32Xor(U32Shr(c, 1), IEEE_POLY)
                                    ELSE U32Shr(c, 1), k - 1)

IEEE_TABLE == [n \in 0..255 |-> TableEntry(<<0, n>>, 8)]

\* crc32::update over the bytes lo..hi of s, from the running value c. The
\* bytes are taken in order, the range being halved so that the evaluation
\* stack grows with the logarithm of its length (the test c = <<>> is never
\* true: it makes TLC evaluate c on entry).
RECURSIVE CrcRange(_, _, _, _)
CrcRange(c, s, lo, hi) ==
    IF c = <<>> \/ lo > hi THEN c
    ELSE IF lo = hi THEN U32Xor(IEEE_TABLE[Xor(c[2] % 256, s[lo])], U32Shr(c, 8))
    ELSE LET m == (lo + hi) \div 2 IN CrcRange(CrcRange(c, s, lo, m), s, m + 1, hi)

checksum_ieee(s) == U32Xor(CrcRange(AllOnes, s, 1, Len(s)), AllOnes)

---------------------------------------------------------------------------
(* Results *)

Ok(v) == [kind |-> "Ok", value |-> v]
Err(m) == [kind |-> "Err", msg |-> m]
Panic(m) == [kind |-> "Panic", msg |-> m]
None == [kind |-> "None"]
Some(v) == [kind |-> "Some", value |-> v]

NoChunk == [kind |-> "NoChunk"]
NoOp == [name |-> "none"]

---------------------------------------------------------------------------
(* chunk_type.rs: the validated ChunkType *)

\* ChunkType::is_valid_byte
is_valid_byte(byte) ==
    (byte >= 65 /\ byte <= 90) \/ (byte >= 97 /\ byte <= 122)

\* u8::is_ascii_uppercase, u8::is_ascii_lowercase
is_ascii_uppercase(byte) == byte >= 65 /\ byte <= 90
is_ascii_lowercase(byte) == byte >= 97 /\ byte <= 122

\* the predicates of a ChunkType, one per byte
is_critical(t) == is_ascii_uppercase(t.bytes[1])
is_public(t) == is_ascii_uppercase(t.bytes[2])
is_reserved_bit_valid(t) == is_ascii_uppercase(t.bytes[3])
is_safe_to_copy(t) == is_ascii_lowercase(t.bytes[4])

\* is_valid with the reserved bit left out
is_valid_letters_only(t) == \A i \in 1..4 : is_valid_byte(t.bytes[i])

\* ChunkType::is_valid
is_valid(t) ==
    /\ is_reserved_bit_valid(t)
    /\ is_valid_byte(t.bytes[1])
    /\ is_valid_byte(t.bytes[2])
    /\ is_valid_byte(t.bytes[3])
    /\ is_valid_byte(t.bytes[4])

\* try_from with the check of the bytes left out
ChunkType_try_from_unchecked(b) == [kind |-> "Ok", value |-> [bytes |-> b]]

\* impl TryFrom<[u8; 4]> for ChunkType: the first invalid byte is reported
ChunkType_try_from(b) ==
    IF \E i \in 1..4 : ~is_valid_byte(b[i])
    THEN LET i == CHOOSE i \in 1..4 :
                     ~is_valid_byte(b[i]) /\ \A j \in 1..(i - 1) : is_valid_byte(b[j])
         IN  [kind |-> "Err", msg |-> "Invalid byte", byte |-> b[i]]
    ELSE Ok([bytes |-> b])

\* str::is_ascii on the bytes of a string
is_ascii(s) == \A i \in 1..Len(s) : s[i] < 128

\* impl FromStr for ChunkType; s is the string as its bytes
ChunkType_from_str(s) ==
    IF Len(s) = 4 /\ is_ascii(s)
    THEN ChunkType_try_from(<<s[1], s[2], s[3], s[4]>>)
    ELSE Err("String must be 4 ASCII bytes")

---------------------------------------------------------------------------
(* chunk.rs: the validated Chunk *)

\* calculate_crc with the type bytes left out of the checksum
calculate_crc_data_only(chunk_type, data) == checksum_ieee(data)

\* Chunk::calculate_crc
calculate_crc(chunk_type, data) == checksum_ieee(chunk_type.bytes \o data)

\* Chunk::new
Chunk_new(chunk_type, data) ==
    [length |-> U32(Len(data)),
     chunk_type |-> chunk_type,
     data |-> data,
     crc |-> calculate_crc(chunk_type, data)]

\* as_bytes with the crc written least significant byte first
Chunk_as_bytes_crc_le(c) ==
    to_be_bytes(c.length) \o c.chunk_type.bytes \o c.data
        \o <<c.crc[2] % 256, c.crc[2] \div 256, c.crc[1] % 256, c.crc[1] \div 256>>

\* Chunk::as_bytes
Chunk_as_bytes(c) ==
    to_be_bytes(c.length) \o c.chunk_type.bytes \o c.data \o to_be_bytes(c.crc)

\* Chunk::from_strings; both strings as their bytes
Chunk_from_strings(chunk_type, data) ==
    LET t == ChunkType_from_str(chunk_type) IN
    IF t.kind = "Err" THEN t ELSE Ok(Chunk_new(t.value, data))

\* impl TryFrom<&[u8]> for Chunk
Chunk_try_from(b) ==
    IF Len(b) < 8 THEN Err("Invalid chunk")
    ELSE
      LET data_length == from_be_bytes(SubSeq(b, 1, 4))
          chunk_type == ChunkType_try_from(SubSeq(b, 5, 8))
      IN
      IF chunk_type.kind = "Err" THEN chunk_type
      ELSE IF ~AtMost(data_length, Len(b) - 8) THEN Err("failed to fill whole buffer")
      ELSE
        LET n == AsUsize(data_length)
            data == SubSeq(b, 9, 8 + n)
        IN
        IF Len(b) - 8 - n < 4 THEN Err("failed to fill whole buffer")
        ELSE
          LET crc == from_be_bytes(SubSeq(b, 9 + n, 12 + n))
              computed_crc == calculate_crc(chunk_type.value, data)
          IN
          IF crc # computed_crc THEN Err("CRC check failed")
          ELSE Ok([length |-> data_length,
                   chunk_type |-> chunk_type.value,
                   data |-> data,
                   crc |-> crc])

---------------------------------------------------------------------------
(* png.rs: ChunkType, Chunk and Png as the container uses them *)

\* png.rs ChunkType::from_bytes: stores the bytes as given
png_ChunkType_from_bytes(b) == [bytes |-> b]

\* png.rs ChunkType::from_str
png_ChunkType_from_str(s) ==
    IF Len(s) = 4 /\ is_ascii(s)
    THEN Ok(png_ChunkType_from_bytes(<<s[1], s[2], s[3], s[4]>>))
    ELSE Err("String must be 4 ASCII bytes")

\* png.rs Chunk::new
png_Chunk_new(chunk_type, data) ==
    [length |-> U32(Len(data)),
     chunk_type |-> chunk_type,
     data |-> data,
     crc |-> checksum_ieee(chunk_type.bytes \o data)]

\* png.rs Chunk::from_bytes: b holds type, data and crc
png_Chunk_from_bytes(data_length, b) ==
    IF Len(b) < 8 THEN Err("Invalid chunk")
    ELSE
      LET chunk_type == png_ChunkType_from_bytes(SubSeq(b, 1, 4)) IN
      IF ~AtMost(data_length, Len(b) - 4) THEN Panic("Failed to read chunk data")
      ELSE
        LET n == AsUsize(data_length)
            data == SubSeq(b, 5, 4 + n)
        IN
        IF Len(b) - 4 - n < 4 THEN Panic("Failed to read crc")
        ELSE Ok([length |-> data_length,
                 chunk_type |-> chunk_type,
                 data |-> data,
                 crc |-> from_be_bytes(SubSeq(b, 5 + n, 8 + n))])

\* png.rs as_bytes with the length written least significant byte first
png_Chunk_as_bytes_len_le(c) ==
    <<c.length[2] % 256, c.length[2] \div 256, c.length[1] % 256, c.length[1] \div 256>>
        \o c.chunk_type.bytes \o c.data \o to_be_bytes(c.crc)

\* png.rs Chunk::as_bytes
png_Chunk_as_bytes(c) ==
    to_be_bytes(c.length) \o c.chunk_type.bytes \o c.data \o to_be_bytes(c.crc)

\* The loop of Png::from_bytes: pos bytes of b are consumed, acc holds the
\* chunks pushed so far; checks is the build's overflow checking.
RECURSIVE ReadChunks(_, _, _, _)
ReadChunks(b, pos, acc, checks) ==
    IF Len(b) - pos < 4 THEN Ok(acc)
    ELSE
      LET length == from_be_bytes(SubSeq(b, pos + 1, pos + 4))
          sum == U32Add(length, 8)
          chunk_length == sum.value
      IN
      IF sum.overflow /\ checks THEN Panic("attempt to add with overflow")
      ELSE IF ~AtMost(chunk_length, Len(b) - pos - 4)
      THEN Panic("failed to fill whole buffer")
      ELSE
        LET n == AsUsize(chunk_length)
            chunk_data == SubSeq(b, pos + 5, pos + 4 + n)
            c == png_Chunk_from_bytes(length, chunk_data)
        IN
        IF c.kind = "Err" THEN Panic(c.msg)
        ELSE IF c.kind = "Panic" THEN c
        ELSE ReadChunks(b, pos + 4 + n, Append(acc, c.value), checks)

\* Png::from_bytes
Png_from_bytes(b, checks) ==
    IF Len(b) < 8 THEN Panic("failed to fill whole buffer")
    ELSE
      LET r == ReadChunks(b, 8, <<>>, checks) IN
      IF r.kind = "Ok"
      THEN Ok([header |-> SubSeq(b, 1, 8), chunks |-> r.value])
      ELSE r

\* Vec::insert(index, element), index counted from 0
VecInsert(v, index, e) ==
    SubSeq(v, 1, index) \o <<e>> \o SubSeq(v, index + 1, Len(v))

\* insert_chunk that pushes the chunk at the end
insert_chunk_push(cs, c) == Append(cs, c)

\* Png::insert_chunk: the chunk list afterwards
insert_chunk(cs, c) ==
    IF cs # <<>>
    THEN LET index == Len(cs) - 1 IN VecInsert(cs, index, c)
    ELSE cs

\* Png::remove_chunk: unimplemented!()
remove_chunk(cs, chunk_type) == Panic("not implemented")

\* The scan of Png::chunk_by_type from index i (1-based) on
RECURSIVE ScanByType(_, _, _)
ScanByType(cs, chunk_type, i) ==
    IF i > Len(cs) THEN None
    ELSE IF cs[i].chunk_type = chunk_type THEN Some(cs[i])
    ELSE ScanByType(cs, chunk_type, i + 1)

\* Png::chunk_by_type
chunk_by_type(cs, s) ==
    LET t == png_ChunkType_from_str(s) IN
    IF t.kind = "Ok" THEN ScanByType(cs, t.value, 1) ELSE None

\* Png::as_bytes
RECURSIVE ChunksBytes(_)
ChunksBytes(cs) ==
    IF cs = <<>> THEN <<>> ELSE png_Chunk_as_bytes(Head(cs)) \o ChunksBytes(Tail(cs))

Png_as_bytes(png) == png.header \o ChunksBytes(png.chunks)

---------------------------------------------------------------------------
(* Inputs *)

\* the PNG signature a well-formed file starts with
STANDARD_HEADER == <<137, 80, 78, 71, 13, 10, 26, 10>>

RuSt == <<82, 117, 83, 116>>
IEND == <<73, 69, 78, 68>>
Ru1t == <<82, 117, 49, 116>>
teXt == <<116, 101, 88, 116>>

\* "hello", the message of the encode example
hello == <<104, 101, 108, 108, 111>>

\* headers an input buffer may start with: the signature, one with a wrong
\* byte, and one cut short
HeaderSample ==
    {STANDARD_HEADER, <<137, 80, 78, 71, 13, 10, 26, 11>>, SubSeq(STANDARD_HEADER, 1, 5)}

\* the wire bytes of a record of type t and data d, as chunk.rs writes them
Record(t, d) == Chunk_as_bytes(Chunk_new([bytes |-> t], d))

\* the pieces that follow the header of an input buffer: whole records (one
\* with a type byte that is no letter), a record whose crc is wrong, a record
\* cut short, stray bytes, and length fields of 2^32-1 and 2^32-8
WireSample ==
    { Record(IEND, <<>>),
      Record(RuSt, <<104, 105>>),
      Record(Ru1t, <<104>>),
      [Record(RuSt, <<104, 105>>) EXCEPT ![14] = (@ + 1) % 256],
      SubSeq(Record(RuSt, <<104, 105>>), 1, 11),
      <<0, 0, 0>>,
      <<255, 255, 255, 255>>,
      <<255, 255, 255, 248>> }

\* the type strings given to lookups and removals, as their bytes: three of
\* four ASCII bytes, one too short, one of four bytes that are not ASCII
TextSample == {RuSt, IEND, Ru1t, teXt, <<82, 117>>, <<82, 195, 169, 116>>}

\* (type string, message) pairs given to insert, as encode does
InsertSample == {<<teXt, hello>>, <<Ru1t, <<>>>>}

SeqsUpTo(S, n) == UNION {[1..m -> S] : m \in 0..n}

RECURSIVE Concat(_)
Concat(ss) == IF ss = <<>> THEN <<>> ELSE Head(ss) \o Concat(Tail(ss))

---------------------------------------------------------------------------
(* The container: a buffer is parsed and the Png is then used.             *)

Init ==
    /\ bytes \in {h \o Concat(ws) : h \in HeaderSample, ws \in SeqsUpTo(WireSample, MaxChunks)}
    /\ edits = 0
    /\ stage = "input"
    /\ header = <<>>
    /\ chunks = <<>>
    /\ chunk = NoChunk
    /\ result = None
    /\ op = NoOp
    /\ pre = <<>>

\* Png::from_bytes(bytes), in a build with or without overflow checks
FromBytes(checks) ==
    /\ stage = "input"
    /\ LET r == Png_from_bytes(bytes, checks) IN
       /\ result' = r
       /\ IF r.kind = "Ok"
          THEN stage' = "parsed" /\ header' = r.value.header /\ chunks' = r.value.chunks
          ELSE stage' = "aborted" /\ UNCHANGED <<header, chunks>>
    /\ op' = [name |-> "from_bytes", overflow_checks |-> checks]
    /\ pre' = <<>>
    /\ UNCHANGED <<bytes, edits, chunk>>

\* encode: ChunkType::from_str, Chunk::new, Png::insert_chunk
InsertChunk(s, d) ==
    /\ stage = "parsed"
    /\ Len(chunks) < MaxChunks + MaxInserts
    /\ LET t == png_ChunkType_from_str(s) IN
       /\ t.kind = "Ok"
       /\ LET c == png_Chunk_new(t.value, d) IN
          /\ chunks' = insert_chunk(chunks, c)
          /\ op' = [name |-> "insert_chunk", chunk |-> c]
    /\ pre' = chunks
    /\ result' = None
    /\ UNCHANGED <<bytes, edits, stage, header, chunk>>

\* Png::remove_chunk(s)
RemoveChunk(s) ==
    /\ stage = "parsed"
    /\ LET r == remove_chunk(chunks, s) IN
       /\ result' = r
       /\ stage' = IF r.kind = "Panic" THEN "aborted" ELSE stage
    /\ op' = [name |-> "remove_chunk", text |-> s]
    /\ pre' = chunks
    /\ UNCHANGED <<bytes, edits, header, chunks, chunk>>

\* Png::chunk_by_type(s)
ChunkByType(s) ==
    /\ stage = "parsed"
    /\ result' = chunk_by_type(chunks, s)
    /\ op' = [name |-> "chunk_by_type", text |-> s]
    /\ pre' = chunks
    /\ UNCHANGED <<bytes, edits, stage, header, chunks, chunk>>

\* Png::as_bytes()
AsBytes ==
    /\ stage = "parsed"
    /\ result' = Ok(Png_as_bytes([header |-> header, chunks |-> chunks]))
    /\ op' = [name |-> "as_bytes"]
    /\ pre' = chunks
    /\ UNCHANGED <<bytes, edits, stage, header, chunks, chunk>>

Next ==
    \/ \E checks \in BOOLEAN : FromBytes(checks)
    \/ \E x \in InsertSample : InsertChunk(x[1], x[2])
    \/ \E s \in TextSample : RemoveChunk(s)
    \/ \E s \in TextSample : ChunkByType(s)
    \/ AsBytes

Spec == Init /\ [][Next]_vars

---------------------------------------------------------------------------
(* The stand-alone chunk of chunk.rs: a chunk is built from strings, written *)
(* as wire bytes, the bytes are possibly corrupted, and parsed back.         *)

\* "This is where your secret message will be!", the message of the tests
Message ==
    <<84, 104, 105, 115, 32, 105, 115, 32, 119, 104, 101, 114, 101, 32, 121,
      111, 117, 114, 32, 115, 101, 99, 114, 101, 116, 32, 109, 101, 115, 115,
      97, 103, 101, 32, 119, 105, 108, 108, 32, 98, 101, 33>>

\* the crc the tests give for RuSt and Message: 2882656334 and, wrong, 2882656333
TestCrcSample == {<<43985, 55374>>, <<43985, 55373>>}

\* the bytes test_valid_chunk_from_bytes and test_invalid_chunk_from_bytes build
TestChunkData(crc) == to_be_bytes(U32(42)) \o RuSt \o Message \o to_be_bytes(crc)

\* the data a chunk is built from
DataSample == SeqsUpTo({0, 104}, MaxDataLen)

ChunkInit ==
    /\ bytes = <<>>
    /\ edits = 0
    /\ stage = "new"
    /\ header = <<>>
    /\ chunks = <<>>
    /\ chunk = NoChunk
    /\ result = None
    /\ op = NoOp
    /\ pre = <<>>

\* Chunk::from_strings(s, d)
FromStrings(s, d) ==
    /\ stage = "new"
    /\ chunk = NoChunk
    /\ LET r == Chunk_from_strings(s, d) IN
       /\ result' = r
       /\ chunk' = IF r.kind = "Ok" THEN r.value ELSE NoChunk
       /\ stage' = IF r.kind = "Ok" THEN "new" ELSE "failed"
    /\ op' = [name |-> "from_strings", text |-> s, data |-> d]
    /\ UNCHANGED <<bytes, edits, header, chunks, pre>>

\* chunk.as_bytes()
ChunkAsBytes ==
    /\ stage = "new"
    /\ chunk # NoChunk
    /\ bytes' = Chunk_as_bytes(chunk)
    /\ stage' = "wire"
    /\ result' = None
    /\ op' = [name |-> "as_bytes"]
    /\ UNCHANGED <<edits, header, chunks, chunk, pre>>

\* the wire bytes of the two from_bytes tests
TestVector(crc) ==
    /\ stage = "new"
    /\ chunk = NoChunk
    /\ bytes' = TestChunkData(crc)
    /\ stage' = "wire"
    /\ op' = [name |-> "test_chunk_data", crc |-> crc]
    /\ UNCHANGED <<edits, header, chunks, chunk, result, pre>>

\* a byte of the wire bytes is overwritten
Tamper(i, b) ==
    /\ stage = "wire"
    /\ edits < MaxEdits
    /\ bytes[i] # b
    /\ bytes' = [bytes EXCEPT ![i] = b]
    /\ edits' = edits + 1
    /\ UNCHANGED <<stage, header, chunks, chunk, result, op, pre>>

\* the wire bytes lose their last n bytes
Truncate(n) ==
    /\ stage = "wire"
    /\ edits < MaxEdits
    /\ bytes' = SubSeq(bytes, 1, Len(bytes) - n)
    /\ edits' = edits + 1
    /\ UNCHANGED <<stage, header, chunks, chunk, result, op, pre>>

\* the byte with bit k inverted
FlipBit(byte, k) ==
    IF (byte \div 2 ^ k) % 2 = 0 THEN byte + 2 ^ k ELSE byte - 2 ^ k

\* one bit of the wire bytes is inverted; the buffer is not corrupted further
Flip(i, k) ==
    /\ stage = "wire"
    /\ edits = 0
    /\ bytes' = [bytes EXCEPT ![i] = FlipBit(@, k)]
    /\ edits' = MaxEdits
    /\ UNCHANGED <<stage, header, chunks, chunk, result, op, pre>>

\* Chunk::try_from(bytes)
TryFrom ==
    /\ stage = "wire"
    /\ result' = Chunk_try_from(bytes)
    /\ stage' = "tried"
    /\ op' = [name |-> "try_from"]
    /\ UNCHANGED <<bytes, edits, header, chunks, chunk, pre>>

\* byte values a corruption writes
TamperSample == {0, 49, 255}

ChunkNext ==
    \/ \E s \in TextSample, d \in DataSample : FromStrings(s, d)
    \/ ChunkAsBytes
    \/ \E crc \in TestCrcSample : TestVector(crc)
    \/ \E i \in 1..Len(bytes), b \in TamperSample : Tamper(i, b)
    \/ \E n \in 1..Len(bytes) : Truncate(n)
    \/ \E i \in 1..Len(bytes), k \in 0..7 : Flip(i, k)
    \/ TryFrom

ChunkSpec == ChunkInit /\ [][ChunkNext]_vars

---------------------------------------------------------------------------
(* The type code of chunk_type.rs: a ChunkType is made from 4 bytes, by    *)
(* try_from or, as the tests do, as a struct literal, and is then queried.  *)

\* the byte values around the two letter ranges
ByteSample == {64, 65, 90, 91, 96, 97, 122, 123}

\* the type codes of the tests: RuSt, Ru1t, Rust, ruSt, RUSt, RuST
TestTypeSample ==
    {RuSt, Ru1t, <<82, 117, 115, 116>>, <<114, 117, 83, 116>>,
     <<82, 85, 83, 116>>, <<82, 117, 83, 84>>}

\* a bool a predicate returns
Bool(b) == [kind |-> "bool", value |-> b]

TypeInit ==
    /\ bytes \in [1..4 -> ByteSample] \cup TestTypeSample
    /\ edits = 0
    /\ stage = "bytes"
    /\ header = <<>>
    /\ chunks = <<>>
    /\ chunk = NoChunk
    /\ result = None
    /\ op = NoOp
    /\ pre = <<>>

\* ChunkType::try_from(bytes)
TypeTryFrom ==
    /\ stage = "bytes"
    /\ LET r == ChunkType_try_from(bytes) IN
       /\ result' = r
       /\ chunk' = IF r.kind = "Ok" THEN r.value ELSE NoChunk
       /\ stage' = IF r.kind = "Ok" THEN "constructed" ELSE "failed"
    /\ op' = [name |-> "try_from"]
    /\ UNCHANGED <<bytes, edits, header, chunks, pre>>

\* ChunkType { bytes }, the struct literal of test_invalid_chunk_is_valid
TypeLiteral ==
    /\ stage = "bytes"
    /\ chunk' = [bytes |-> bytes]
    /\ stage' = "literal"
    /\ result' = None
    /\ op' = [name |-> "literal"]
    /\ UNCHANGED <<bytes, edits, header, chunks, pre>>

\* a predicate of the ChunkType is called
Query(name, value) ==
    /\ stage \in {"constructed", "literal"}
    /\ result' = Bool(value)
    /\ op' = [name |-> name]
    /\ UNCHANGED <<bytes, edits, stage, header, chunks, chunk, pre>>

IsCritical == Query("is_critical", is_critical(chunk))
IsPublic == Query("is_public", is_public(chunk))
IsReservedBitValid == Query("is_reserved_bit_valid", is_reserved_bit_valid(chunk))
IsSafeToCopy == Query("is_safe_to_copy", is_safe_to_copy(chunk))
IsValid == Query("is_valid", is_valid(chunk))

TypeNext ==
    \/ TypeTryFrom
    \/ TypeLiteral
    \/ IsCritical
    \/ IsPublic
    \/ IsReservedBitValid
    \/ IsSafeToCopy
    \/ IsValid

TypeSpec == TypeInit /\ [][TypeNext]_vars

---------------------------------------------------------------------------
(* Properties *)

IsLetters(t) == \A i \in 1..4 : t[i] \in (65..90) \cup (97..122)

\* b is framed as a record: a length n < 65536 in its first four bytes,
\* big-endian, and at least the 12 + n bytes the length demands
Framed(b, n) ==
    /\ Len(b) >= 12 + n
    /\ b[1] = 0 /\ b[2] = 0 /\ b[3] * 256 + b[4] = n

\* C2: Chunk round-trip. The wire bytes of a chunk built from a type and data
\* are the length (4 bytes, big-endian), the 4 type bytes, the data and the crc
\* (4 bytes, big-endian), and parsing them returns the chunk itself.
C2_ChunkRoundTrip ==
    (stage = "tried" /\ chunk # NoChunk /\ edits = 0) =>
        LET n == Len(chunk.data) IN
        /\ result = Ok(chunk)
        /\ Len(bytes) = 12 + n
        /\ Framed(bytes, n)
        /\ SubSeq(bytes, 5, 8) = chunk.chunk_type.bytes
        /\ SubSeq(bytes, 9, 8 + n) = chunk.data
        /\ bytes[9 + n] * 256 + bytes[10 + n] = chunk.crc[1]
        /\ bytes[11 + n] * 256 + bytes[12 + n] = chunk.crc[2]

C2_Witness ==
    /\ stage = "tried" /\ chunk # NoChunk /\ edits = 0
    /\ chunk.data = <<0, 104>>
    /\ result.kind = "Ok"

\* C3: parsing a framed record with a letter type fails with the crc error
\* whenever the crc on the wire is not the CRC-32 of type and data, and returns
\* a chunk only when it is; the chunk's crc is the wire value. The crc the
\* tests give for RuSt and Message is accepted and its neighbour is not.
C3_CrcChecked ==
    /\ stage = "tried" =>
         /\ \A n \in 0..Len(bytes) :
              (Framed(bytes, n) /\ IsLetters(SubSeq(bytes, 5, 8))) =>
                 LET wire == SubSeq(bytes, 9 + n, 12 + n)
                     computed == to_be_bytes(checksum_ieee(SubSeq(bytes, 5, 8 + n)))
                 IN  /\ wire # computed => result = Err("CRC check failed")
                     /\ wire = computed =>
                          /\ result.kind = "Ok"
                          /\ to_be_bytes(result.value.crc) = wire
         /\ result.kind = "Ok" =>
              \E n \in 0..Len(bytes) : Framed(bytes, n) /\ IsLetters(SubSeq(bytes, 5, 8))
    /\ (stage = "tried" /\ op.name = "try_from" /\ edits = 0 /\ chunk = NoChunk) =>
         (result.kind = "Ok" <=> SubSeq(bytes, 51, 54) = <<171, 209, 216, 78>>)

C3_Witness ==
    /\ stage = "tried" /\ edits = 1
    /\ result = Err("CRC check failed")

\* s is a run of complete records, each with a letter type and the crc of
\* its type and data
RECURSIVE ValidRecords(_)
ValidRecords(s) ==
    \/ s = <<>>
    \/ \E n \in 0..(Len(s) - 12) :
          /\ Framed(s, n)
          /\ IsLetters(SubSeq(s, 5, 8))
          /\ SubSeq(s, 9 + n, 12 + n) = to_be_bytes(checksum_ieee(SubSeq(s, 5, 8 + n)))
          /\ ValidRecords(SubSeq(s, 13 + n, Len(s)))

WellFormed(b) ==
    /\ Len(b) >= 8
    /\ SubSeq(b, 1, 8) = STANDARD_HEADER
    /\ ValidRecords(SubSeq(b, 9, Len(b)))

\* the first record of s that chunk-level parsing rejects, if any: a record
\* with fewer bytes than its length demands, a type byte that is no letter, or
\* a crc that is not the CRC-32 of type and data
RECURSIVE HasFailingRecord(_)
HasFailingRecord(s) ==
    IF Len(s) < 4 THEN FALSE
    ELSE IF s[1] # 0 \/ s[2] # 0 THEN TRUE
    ELSE LET n == s[3] * 256 + s[4] IN
         IF Len(s) < 12 + n THEN TRUE
         ELSE IF ~IsLetters(SubSeq(s, 5, 8)) THEN TRUE
         ELSE IF SubSeq(s, 9 + n, 12 + n) # to_be_bytes(checksum_ieee(SubSeq(s, 5, 8 + n)))
         THEN TRUE
         ELSE HasFailingRecord(SubSeq(s, 13 + n, Len(s)))

\* the indices of the chunks of cs whose type is the 4 bytes t
Matches(cs, t) == {i \in 1..Len(cs) : cs[i].chunk_type.bytes = t}

\* the least element of a non-empty set of numbers
Least(S) == CHOOSE i \in S : \A j \in S : i <= j

\* s is a type code: four ASCII letters
IsTypeCode(s) == Len(s) = 4 /\ IsLetters(s)

\* C1: Container round-trip. Writing a Png that a parse returned and parsing
\* the bytes again returns an equal Png (header and chunks, in order); and when
\* the parsed buffer is well formed the bytes written are the buffer.
C1_RoundTrip ==
    (stage = "parsed" /\ op.name = "from_bytes") =>
        LET png == [header |-> header, chunks |-> chunks]
            out == Png_as_bytes(png)
        IN  /\ \A checks \in BOOLEAN : Png_from_bytes(out, checks) = Ok(png)
            /\ WellFormed(bytes) => out = bytes

C1_Witness ==
    /\ stage = "parsed" /\ op.name = "from_bytes"
    /\ WellFormed(bytes)
    /\ Len(chunks) = 2
    /\ chunks[1].data = <<104, 105>>

\* C4: Header gate. A buffer that does not begin with the signature gets a
\* header error from the parse: MissingHeader when it has fewer than 8 bytes,
\* BadHeader when its first 8 bytes differ; no Png and no panic.
C4_HeaderGate ==
    (op.name = "from_bytes" /\ (Len(bytes) < 8 \/ SubSeq(bytes, 1, 8) # STANDARD_HEADER)) =>
        /\ result.kind = "Err"
        /\ result.msg = (IF Len(bytes) < 8 THEN "MissingHeader" ELSE "BadHeader")

\* C5: All or nothing. When a record after the signature fails chunk-level
\* parsing, the parse returns an error value: no Png, and no panic.
C5_AllOrNothing ==
    (/\ op.name = "from_bytes"
     /\ Len(bytes) >= 8
     /\ SubSeq(bytes, 1, 8) = STANDARD_HEADER
     /\ HasFailingRecord(SubSeq(bytes, 9, Len(bytes)))) =>
        result.kind = "Err"

\* C6: Insert keeps the last chunk last. Inserting X into n >= 1 chunks gives
\* n + 1 chunks with X at index n - 1 (counted from 0), the former last chunk
\* last and the first n - 1 chunks as they were; so the last chunk the parse
\* returned is still the last after any inserts.
C6_InsertBeforeLast ==
    /\ (op.name = "insert_chunk" /\ pre # <<>>) =>
         LET n == Len(pre) IN
         /\ Len(chunks) = n + 1
         /\ chunks[n] = op.chunk
         /\ chunks[n + 1] = pre[n]
         /\ \A i \in 1..(n - 1) : chunks[i] = pre[i]
    /\ stage = "parsed" =>
         LET orig == Png_from_bytes(bytes, TRUE).value.chunks IN
         orig # <<>> => chunks[Len(chunks)] = orig[Len(orig)]

C6_Witness ==
    /\ op.name = "insert_chunk"
    /\ Len(pre) = 3
    /\ Len(chunks) = 4
    /\ chunks[3] = op.chunk
    /\ chunks[4].chunk_type.bytes = IEND

\* C7: Insert into an empty Png appends: the Png then holds exactly X; and
\* every insert makes the chunk list one longer.
C7_InsertIntoEmpty ==
    op.name = "insert_chunk" =>
        /\ Len(chunks) = Len(pre) + 1
        /\ pre = <<>> => chunks = <<op.chunk>>

\* C8: Remove. When a chunk has the type named, the chunk of that type at the
\* lowest index is removed and returned; the others stay, in order.
C8_RemoveFirst ==
    (op.name = "remove_chunk" /\ IsTypeCode(op.text) /\ Matches(pre, op.text) # {}) =>
        LET i == Least(Matches(pre, op.text)) IN
        /\ result.kind = "Ok"
        /\ result.value = pre[i]
        /\ chunks = SubSeq(pre, 1, i - 1) \o SubSeq(pre, i + 1, Len(pre))

\* C9: Remove errors. NotFound when the text is a type code no chunk has,
\* BadTypeQuery when it is no type code; an error value, the chunks unchanged.
C9_RemoveErrors ==
    (op.name = "remove_chunk" /\ (~IsTypeCode(op.text) \/ Matches(pre, op.text) = {})) =>
        /\ result.kind = "Err"
        /\ result.msg = (IF IsTypeCode(op.text) THEN "NotFound" ELSE "BadTypeQuery")
        /\ chunks = pre

\* C10: Lookup. The chunk at the lowest index with the type named is returned;
\* nothing when the text is no type code or no chunk has the type; the chunks
\* are unchanged.
C10_FindFirst ==
    op.name = "chunk_by_type" =>
        /\ chunks = pre
        /\ result = (IF IsTypeCode(op.text) /\ Matches(chunks, op.text) # {}
                     THEN Some(chunks[Least(Matches(chunks, op.text))])
                     ELSE None)

\* C11: Encode, decode, remove. An insert of a chunk of type t and data d into
\* one or more chunks none of which has type t (as teXt and "hello" into the
\* single end chunk, which gives [teXt("hello"), END]) is followed by a lookup of
\* t that returns a chunk with data d, and by a removal of t that returns a
\* chunk with data d and leaves the chunks as they were before the insert.
C11_EncodeDecodeRemove ==
    [][(/\ op.name = "insert_chunk"
        /\ pre # <<>>
        /\ Matches(pre, op.chunk.chunk_type.bytes) = {}
        /\ op'.name \in {"chunk_by_type", "remove_chunk"}
        /\ op'.text = op.chunk.chunk_type.bytes) =>
           /\ chunks = SubSeq(pre, 1, Len(pre) - 1) \o <<op.chunk, pre[Len(pre)]>>
           /\ op'.name = "chunk_by_type" =>
                 /\ result'.kind = "Some"
                 /\ result'.value.data = op.chunk.data
                 /\ chunks' = chunks
           /\ op'.name = "remove_chunk" =>
                 /\ result'.kind = "Ok"
                 /\ result'.value.data = op.chunk.data
                 /\ chunks' = pre]_vars

\* C12: Type codes are validated. A type code is built only from 4 ASCII
\* letters: parsing a text that is not 4 letters (as "Ru1t") fails, so the chunk
\* an insert builds from a text has a type of 4 letters, and so has every chunk
\* of a Png, the chunks the parse produced included.
C12_TypeCodeValidated ==
    /\ op.name = "insert_chunk" => IsLetters(op.chunk.chunk_type.bytes)
    /\ \A i \in 1..Len(chunks) : IsLetters(chunks[i].chunk_type.bytes)

Upper == 65..90
Lower == 97..122

Intact(c) ==
    /\ c.crc = checksum_ieee(c.chunk_type.bytes \o c.data)
    /\ c.length = U32(Len(c.data))

\* C14: Chunk integrity. Every chunk has crc = CRC-32(type bytes ++ data) and
\* length = the number of its data bytes: the chunk Chunk::new builds for an
\* insert, and every chunk of a Png after the parse and any inserts and removals.
C14_ChunkIntegrity ==
    /\ op.name = "insert_chunk" => Intact(op.chunk)
    /\ \A i \in 1..Len(chunks) : Intact(chunks[i])

\* the wire bytes before any corruption: those of the chunk built, or the
\* valid test vector
Original ==
    IF chunk # NoChunk THEN Chunk_as_bytes(chunk) ELSE TestChunkData(<<43985, 55374>>)

\* the places where bytes is not Original
Differs ==
    LET o == Original IN
    IF Len(bytes) = Len(o) THEN {i \in 1..Len(o) : bytes[i] # o[i]} ELSE {0}

\* bytes is Original with one bit of byte i inverted, i in the type, data or
\* crc region
Flipped(i) ==
    /\ i >= 5
    /\ \E k \in 0..7 : bytes[i] = FlipBit(Original[i], k)

\* C15 as stated: CRC sensitivity. After one bit of the type, data or crc
\* region of the wire bytes of a valid chunk is inverted, parsing them fails
\* with the crc error.
C15_CrcSensitivity ==
    stage = "tried" =>
        LET d == Differs IN
        \A i \in d : (d = {i} /\ Flipped(i)) => result = Err("CRC check failed")

\* C15 amended: after one bit of the data or crc region is inverted parsing
\* fails with the crc error; after one bit of the type region is inverted it
\* fails with the crc error when the changed byte is still a letter, and with
\* the invalid-byte error naming that byte when it is not.
C15_BitFlipRejected ==
    stage = "tried" =>
        LET d == Differs IN
        \A i \in d :
            (d = {i} /\ Flipped(i)) =>
                result = (IF i <= 8 /\ bytes[i] \notin Upper \cup Lower
                          THEN [kind |-> "Err", msg |-> "Invalid byte", byte |-> bytes[i]]
                          ELSE Err("CRC check failed"))

\* the first type byte of RuSt, 82, became 18: the invalid-byte error
C15_Witness ==
    /\ stage = "tried"
    /\ chunk # NoChunk
    /\ chunk.data = <<0, 104>>
    /\ Differs = {5}
    /\ Flipped(5)
    /\ bytes[5] = 18
    /\ result.kind = "Err" /\ result.msg = "Invalid byte"

\* the records of s, framed by their lengths, lead to a length field of
\* 2^32 - 8 or more
RECURSIVE ReadsHugeLength(_)
ReadsHugeLength(s) ==
    IF Len(s) < 4 THEN FALSE
    ELSE IF s[1] = 255 /\ s[2] = 255 /\ s[3] = 255 /\ s[4] >= 248 THEN TRUE
    ELSE IF s[1] # 0 \/ s[2] # 0 THEN FALSE
    ELSE LET n == s[3] * 256 + s[4] IN
         IF Len(s) < 12 + n THEN FALSE
         ELSE ReadsHugeLength(SubSeq(s, 13 + n, Len(s)))

\* C16: Framing arithmetic. A record with length field L needs L + 8 further
\* bytes, computed without wrap-around: when the parse reads a length of
\* 2^32 - 8 or more, which no buffer here can satisfy, it does not panic and
\* returns a truncation error.
C16_FramingArithmetic ==
    (/\ op.name = "from_bytes"
     /\ Len(bytes) >= 8
     /\ ReadsHugeLength(SubSeq(bytes, 9, Len(bytes)))) =>
        result.kind = "Err"

\* C17: End of stream at a record boundary. A parse that succeeds has used
\* every byte: the buffer is the header followed by the wire bytes of the
\* chunks, in the order of the chunk list, with nothing left over.
C17_EndAtBoundary ==
    (op.name = "from_bytes" /\ result.kind = "Ok") =>
        /\ header = SubSeq(bytes, 1, 8)
        /\ bytes = header \o ChunksBytes(chunks)

====
